---- MODULE Spec2Model ----
(***************************************************************************)
(* The eco-route planner UI: the LocationInput field (debounced geocoding  *)
(* search, coordinate short-circuit, result pick, clear) and the App that  *)
(* owns the two Locations, the transport modes, the planning request and   *)
(* the selected route.                                                     *)
(*                                                                         *)
(* Text is a sequence of one-character strings.  A JavaScript number is a  *)
(* decimal [m, e] standing for m / 10^e, with e the least exponent that    *)
(* represents it (so equal numbers are equal records).                     *)
(***************************************************************************)
EXTENDS Integers, Sequences, FiniteSets, TLC

\* null for object-typed state (Location, EcoRouteResponse, RouteOption).
null == [null |-> TRUE]

\* null for the error message (string | null).
nullMessage == "<null>"

\* A regular expression that did not match.
NoMatch == <<>>

\* searchTimeoutRef.current before any timer was started.
NoTimer == <<"<undefined>">>

(***************************************************************************)
(* Text and numbers                                                        *)
(***************************************************************************)
Digits == <<"0", "1", "2", "3", "4", "5", "6", "7", "8", "9">>

IsDigit(c) == \E i \in 1..10 : Digits[i] = c

DigitVal(c) == (CHOOSE i \in 1..10 : Digits[i] = c) - 1

RECURSIVE Pow10(_)
Pow10(e) == IF e = 0 THEN 1 ELSE 10 * Pow10(e - 1)

\* The value of a run of decimal digits.
RECURSIVE DigitsVal(_)
DigitsVal(s) ==
    IF s = <<>> THEN 0
    ELSE 10 * DigitsVal(SubSeq(s, 1, Len(s) - 1)) + DigitVal(s[Len(s)])

\* The decimal digits of a natural number.
RECURSIVE NatToText(_)
NatToText(n) ==
    IF n < 10 THEN <<Digits[n + 1]>>
    ELSE NatToText(n \div 10) \o <<Digits[(n % 10) + 1]>>

\* n written with exactly w digits (leading zeros kept).
RECURSIVE PadNat(_, _)
PadNat(n, w) ==
    IF w = 0 THEN <<>>
    ELSE PadNat(n \div 10, w - 1) \o <<Digits[(n % 10) + 1]>>

\* A decimal brought to its least exponent.
RECURSIVE Normalize(_)
Normalize(x) ==
    IF x.e > 0 /\ x.m % 10 = 0 THEN Normalize([m |-> x.m \div 10, e |-> x.e - 1])
    ELSE x

\* s matches -?\d+\.?\d* as a whole.
IsNumberText(s) ==
    LET body == IF s # <<>> /\ Head(s) = "-" THEN Tail(s) ELSE s
        dots == {i \in 1..Len(body) : body[i] = "."}
    IN  /\ body # <<>>
        /\ IsDigit(body[1])
        /\ Cardinality(dots) <= 1
        /\ \A i \in 1..Len(body) : IsDigit(body[i]) \/ body[i] = "."

\* parseFloat of a text that IsNumberText accepts.
parseFloat(s) ==
    LET neg  == s # <<>> /\ Head(s) = "-"
        body == IF neg THEN Tail(s) ELSE s
        dots == {i \in 1..Len(body) : body[i] = "."}
        dot  == IF dots = {} THEN Len(body) + 1 ELSE CHOOSE i \in dots : TRUE
        int  == SubSeq(body, 1, dot - 1)
        frac == SubSeq(body, dot + 1, Len(body))
        mag  == DigitsVal(int) * Pow10(Len(frac)) + DigitsVal(frac)
    IN  Normalize([m |-> IF neg THEN 0 - mag ELSE mag, e |-> Len(frac)])

\* `${x}` for a number x: sign, integer part, then the fraction when it has one
\* (negative zero prints as 0).
NumToText(x) ==
    LET mag  == IF x.m < 0 THEN 0 - x.m ELSE x.m
        int  == mag \div Pow10(x.e)
        frac == mag % Pow10(x.e)
    IN  (IF x.m < 0 THEN <<"-">> ELSE <<>>)
        \o NatToText(int)
        \o (IF x.e = 0 THEN <<>> ELSE <<".">> \o PadNat(frac, x.e))

\* x >= lo && x <= hi for whole numbers lo, hi.
InRange(x, lo, hi) == lo * Pow10(x.e) <= x.m /\ x.m <= hi * Pow10(x.e)

LatMax == 90
LngMax == 180

RECURSIVE StripSpaces(_)
StripSpaces(s) == IF s # <<>> /\ Head(s) = " " THEN StripSpaces(Tail(s)) ELSE s

\* query.match(/^(-?\d+\.?\d*),\s*(-?\d+\.?\d*)$/): the two groups, or NoMatch.
\* Neither group can hold a comma, so the one comma of the text separates them.
coordMatch(q) ==
    LET commas == {i \in 1..Len(q) : q[i] = ","}
        c  == CHOOSE i \in commas : TRUE
        g1 == SubSeq(q, 1, c - 1)
        g2 == StripSpaces(SubSeq(q, c + 1, Len(q)))
    IN  IF Cardinality(commas) = 1 /\ IsNumberText(g1) /\ IsNumberText(g2)
        THEN <<g1, g2>>
        ELSE NoMatch

\* CoordLocation without the range test on the parsed components.
CoordLocationNoRange(q) ==
    LET cm == coordMatch(q) IN
    IF cm = NoMatch THEN null
    ELSE LET lat == parseFloat(cm[1])
             lng == parseFloat(cm[2])
         IN  [lat |-> lat, lng |-> lng,
              address |-> NumToText(lat) \o <<",", " ">> \o NumToText(lng)]

\* The Location the timer callback builds from a coordinate query, or null
\* when the query is no coordinate pair or a component is out of range.
\* The match and the two parsed numbers are bound once each, as the
\* callback's const declarations are.
CoordLocation(q) ==
    CHOOSE location \in
       {IF cm = NoMatch THEN null
        ELSE CHOOSE l \in
                {IF InRange(lat, 0 - LatMax, LatMax) /\ InRange(lng, 0 - LngMax, LngMax)
                 THEN [lat |-> lat, lng |-> lng,
                       address |-> NumToText(lat) \o <<",", " ">> \o NumToText(lng)]
                 ELSE null
                 : lat \in {parseFloat(cm[1])}, lng \in {parseFloat(cm[2])}} : TRUE
        : cm \in {coordMatch(q)}} : TRUE

\* The display text the value-to-query effect derives from the Location.
DisplayText(value) ==
    IF value = null THEN <<>>
    ELSE IF value.address # <<>> THEN value.address
    ELSE NumToText(value.lat) \o <<",", " ">> \o NumToText(value.lng)

(***************************************************************************)
(* Inputs                                                                  *)
(***************************************************************************)
Fields == {"start", "end"}

tEmpty   == <<>>
tAb      == <<"a", "b">>
tAbc     == <<"a", "b", "c">>
tAbcd    == <<"a", "b", "c", "d">>
tCoord   == <<"1", ",", " ", "2">>
tCoordNs == <<"1", ".", "0", ",", "2">>
tCoordHi == <<"9", "5", ",", "5">>
tRome    == <<"R", "o", "m", "e">>
tOslo    == <<"O", "s", "l", "o">>

\* What the user may type into a field.
Texts == {tEmpty, tAb, tAbc, tAbcd, tCoord, tCoordNs, tCoordHi, tRome}

\* What the user types in the runs of the whole application: an address or
\* a coordinate pair as the start, a coordinate pair as the destination.
AppTexts == {tAbc, tCoord}
AppEndTexts == {tCoord}

\* Results of the geocoding provider ({display_name, lat, lon}, lat/lon textual).
resRome == [display_name |-> tRome, lat |-> <<"4", "1", ".", "9">>,
            lon |-> <<"1", "2", ".", "5">>]
resOslo == [display_name |-> tOslo, lat |-> <<"5", "9", ".", "9">>,
            lon |-> <<"1", "0", ".", "7", "0">>]

\* How a geocoding request may end: the provider's list, or an error.
SearchOutcomes ==
    {[ok |-> TRUE, data |-> <<>>],
     [ok |-> TRUE, data |-> <<resRome>>],
     [ok |-> TRUE, data |-> <<resOslo, resRome>>],
     [ok |-> FALSE, data |-> <<>>]}

AppSearchOutcomes ==
    {[ok |-> TRUE, data |-> <<resRome>>], [ok |-> FALSE, data |-> <<>>]}

\* Geocoding requests outstanding per field, at most: of the field on its
\* own, and in the runs of the whole application.
MaxInFlight == 2
AppMaxInFlight == 1

\* The modes the user toggles in the runs of the whole application.
AppModes == {"cycling-regular"}

(***************************************************************************)
(* State                                                                   *)
(***************************************************************************)
VARIABLES
    \* LocationInput, per field
    query, results, isSearching, showResults, searchTimeoutRef,
    timers,            \* pending setTimeout callbacks, each by its closure's query
    searches,          \* geocoding requests in flight, by originating query
    \* App
    startLocation, endLocation, selectedModes, routeData, selectedRoute,
    isLoading, error,
    plans,             \* planning calls in flight, in call order
    failed,            \* the planning call that failed last, null when a
                       \* call was started since (or none failed)
    \* HealthCheck
    status, healthPending

fieldVars == <<query, results, isSearching, showResults, searchTimeoutRef,
               timers, searches>>
locVars   == <<startLocation, endLocation>>
planVars  == <<routeData, selectedRoute, isLoading, error, plans, failed>>
appVars   == <<selectedModes, routeData, selectedRoute, isLoading, error, plans,
               failed>>
healthVars == <<status, healthPending>>
vars == <<query, results, isSearching, showResults, searchTimeoutRef, timers,
          searches, startLocation, endLocation, selectedModes, routeData,
          selectedRoute, isLoading, error, plans, failed, status, healthPending>>

\* The `value` prop of field f.
Value(f) == IF f = "start" THEN startLocation ELSE endLocation

\* onChange(v) of field f: setStartLocation / setEndLocation.
onChange(f, v) ==
    IF f = "start" THEN startLocation' = v /\ UNCHANGED endLocation
    ELSE endLocation' = v /\ UNCHANGED startLocation

(***************************************************************************)
(* LocationInput: the component's state as a record, and its effects       *)
(***************************************************************************)
Local(f) ==
    [query |-> query[f], results |-> results[f], isSearching |-> isSearching[f],
     showResults |-> showResults[f], ref |-> searchTimeoutRef[f],
     timers |-> timers[f]]

\* Commit the component state s of field f.
Commit(f, s) ==
    /\ query' = [query EXCEPT ![f] = s.query]
    /\ results' = [results EXCEPT ![f] = s.results]
    /\ isSearching' = [isSearching EXCEPT ![f] = s.isSearching]
    /\ showResults' = [showResults EXCEPT ![f] = s.showResults]
    /\ searchTimeoutRef' = [searchTimeoutRef EXCEPT ![f] = s.ref]
    /\ timers' = [timers EXCEPT ![f] = s.timers]

\* clearTimeout(searchTimeoutRef.current): a no-op on a timer that has fired.
clearTimeout(s) == [s EXCEPT !.timers = @ \ {s.ref}]

\* DebounceEffect that starts the new timer without clearing the pending one.
DebounceEffectNoCancel(s) ==
    IF Len(s.query) > 2
    THEN [s EXCEPT !.timers = @ \cup {s.query}, !.ref = s.query]
    ELSE [s EXCEPT !.results = <<>>, !.showResults = FALSE]

\* The debounce effect, run after a render in which query changed: the
\* previous run's cleanup, then the effect body.
DebounceEffect(s) ==
    LET c == clearTimeout(clearTimeout(s)) IN
    IF Len(s.query) > 2
    THEN [c EXCEPT !.timers = @ \cup {s.query}, !.ref = s.query]
    ELSE [c EXCEPT !.results = <<>>, !.showResults = FALSE]

\* setQuery whose render runs the debounce effect even on an equal state.
setQueryNoBailOut(s, q) == DebounceEffect([s EXCEPT !.query = q])

\* setQuery(q) and the render it causes; React bails out on an equal state.
setQuery(s, q) ==
    IF q = s.query THEN s ELSE DebounceEffect([s EXCEPT !.query = q])

\* The value-to-query effect, run after a render in which value changed.
ValueEffect(s, value) == setQuery(s, DisplayText(value))

\* geocodingService.searchLocation: the provider's list, [] on any error.
searchLocation(outcome) == IF outcome.ok THEN outcome.data ELSE <<>>

RemoveAt(seq, i) == SubSeq(seq, 1, i - 1) \o SubSeq(seq, i + 1, Len(seq))

\* input onChange: the user changes the text of field f to t.
Type(f, t) ==
    /\ t # query[f]
    /\ Commit(f, setQuery(Local(f), t))
    /\ UNCHANGED <<searches, locVars, appVars, healthVars>>

\* The debounce timer of field f whose closure holds q fires (the callback up
\* to its await); at most cap requests are outstanding.
TimerFire(f, q, cap) ==
    /\ q \in timers[f]
    /\ \E loc \in {CoordLocation(q)} :
       LET s == [Local(f) EXCEPT !.timers = @ \ {q}]
       IN  IF loc # null
           THEN /\ onChange(f, loc)
                /\ Commit(f, ValueEffect([s EXCEPT !.results = <<>>,
                                                   !.showResults = FALSE,
                                                   !.isSearching = FALSE], loc))
                /\ UNCHANGED searches
           ELSE /\ Len(searches[f]) < cap
                /\ Commit(f, [s EXCEPT !.isSearching = TRUE])
                /\ searches' = [searches EXCEPT ![f] = Append(@, q)]
                /\ UNCHANGED locVars
    /\ UNCHANGED <<appVars, healthVars>>

\* SearchComplete that opens the dropdown whatever the provider returned.
SearchCompleteAlwaysShows(f, i, o) ==
    /\ i \in 1..Len(searches[f])
    /\ LET searchResults == searchLocation(o) IN
       Commit(f, [Local(f) EXCEPT !.results = searchResults,
                                  !.showResults = TRUE,
                                  !.isSearching = FALSE])
    /\ searches' = [searches EXCEPT ![f] = RemoveAt(@, i)]
    /\ UNCHANGED <<locVars, appVars, healthVars>>

\* SearchComplete that reports the provider's error as the application's error.
SearchCompleteSurfacesError(f, i, o) ==
    /\ i \in 1..Len(searches[f])
    /\ LET searchResults == searchLocation(o) IN
       Commit(f, [Local(f) EXCEPT !.results = searchResults,
                                  !.showResults = Len(searchResults) > 0,
                                  !.isSearching = FALSE])
    /\ searches' = [searches EXCEPT ![f] = RemoveAt(@, i)]
    /\ error' = IF o.ok THEN error ELSE "Geocoding error"
    /\ UNCHANGED <<locVars, selectedModes, routeData, selectedRoute, isLoading,
                   plans, failed, healthVars>>

\* The i-th outstanding geocoding request of field f ends with outcome o.
SearchComplete(f, i, o) ==
    /\ i \in 1..Len(searches[f])
    /\ LET searchResults == searchLocation(o) IN
       Commit(f, [Local(f) EXCEPT !.results = searchResults,
                                  !.showResults = Len(searchResults) > 0,
                                  !.isSearching = FALSE])
    /\ searches' = [searches EXCEPT ![f] = RemoveAt(@, i)]
    /\ UNCHANGED <<locVars, appVars, healthVars>>

\* handleSelectResult: the user picks the k-th entry of the open dropdown.
handleSelectResult(f, k) ==
    /\ showResults[f] /\ Len(results[f]) > 0
    /\ k \in 1..Len(results[f])
    /\ LET result   == results[f][k]
           location == [lat |-> parseFloat(result.lat),
                        lng |-> parseFloat(result.lon),
                        address |-> result.display_name]
           s1 == [Local(f) EXCEPT !.query = result.display_name,
                                  !.showResults = FALSE]
           s2 == IF s1.query # query[f] THEN DebounceEffect(s1) ELSE s1
       IN  /\ onChange(f, location)
           /\ Commit(f, ValueEffect(s2, location))
    /\ UNCHANGED <<searches, appVars, healthVars>>

\* handleClear whose render does not cancel the pending debounce timer.
handleClearNoCancel(f) ==
    /\ query[f] # <<>>
    /\ LET s1 == [Local(f) EXCEPT !.query = <<>>, !.results = <<>>,
                                  !.showResults = FALSE]
       IN  /\ onChange(f, null)
           /\ Commit(f, ValueEffect(DebounceEffectNoCancel(s1), null))
    /\ UNCHANGED <<searches, appVars, healthVars>>

\* handleClear: the clear button, rendered while query is non-empty.
handleClear(f) ==
    /\ query[f] # <<>>
    /\ LET s1 == [Local(f) EXCEPT !.query = <<>>, !.results = <<>>,
                                  !.showResults = FALSE]
       IN  /\ onChange(f, null)
           /\ Commit(f, ValueEffect(DebounceEffect(s1), null))
    /\ UNCHANGED <<searches, appVars, healthVars>>

\* handleClickOutside: a mousedown outside the field's container.
handleClickOutside(f) ==
    /\ Commit(f, [Local(f) EXCEPT !.showResults = FALSE])
    /\ UNCHANGED <<searches, locVars, appVars, healthVars>>

(***************************************************************************)
(* TransportModeSelector                                                   *)
(***************************************************************************)
transportModes == <<"driving-car", "cycling-regular", "foot-walking">>

Range(seq) == {seq[i] : i \in 1..Len(seq)}

\* handleModeToggle that appends the mode whether or not it is selected.
handleModeToggleAlwaysAppends(modeId) ==
    /\ selectedModes' = Append(selectedModes, modeId)
    /\ UNCHANGED <<fieldVars, locVars, planVars, healthVars>>

\* handleModeToggle: remove the mode if selected, append it otherwise.
handleModeToggle(modeId) ==
    /\ selectedModes' =
          IF modeId \in Range(selectedModes)
          THEN SelectSeq(selectedModes, LAMBDA id : id # modeId)
          ELSE Append(selectedModes, modeId)
    /\ UNCHANGED <<fieldVars, locVars, planVars, healthVars>>

(***************************************************************************)
(* App: planning and route selection                                       *)
(***************************************************************************)
msgValidation == "Please fill in all required fields"
msgFallback   == "Failed to plan route. Please try again."

\* modes.join(',')
RECURSIVE Join(_)
Join(modes) ==
    IF Len(modes) = 0 THEN <<>>
    ELSE IF Len(modes) = 1 THEN <<modes[1]>>
    ELSE <<modes[1], ",">> \o Join(Tail(modes))

\* `${location.lng},${location.lat}`: longitude first.
Coords(location) == NumToText(location.lng) \o <<",">> \o NumToText(location.lat)

\* Route options and responses of the planning backend.
optCycleA == [mode |-> "cycling-regular", eco_score |-> 90]
optCarA   == [mode |-> "driving-car", eco_score |-> 40]
optCycleB == [mode |-> "cycling-regular", eco_score |-> 85]

respNone == [route_options |-> <<>>, recommended_route |-> null]
respA    == [route_options |-> <<optCycleA, optCarA>>, recommended_route |-> optCycleA]
respB    == [route_options |-> <<optCycleB>>, recommended_route |-> optCycleB]

PlanResponses == {respNone, respA, respB}

\* How a planning request may fail.  detail is the response body's `detail`,
\* "" when there is no response or the body has none.
PlanErrors ==
    {[kind |-> "network", detail |-> ""],
     [kind |-> "timeout", detail |-> ""],
     [kind |-> "http", detail |-> ""],
     [kind |-> "http", detail |-> "no route found"]}

\* Planning calls in flight, at most (direct invocations of the handler).
MaxPlans == 2

\* The disabled attribute of the plan button.
PlanDisabled ==
    startLocation = null \/ endLocation = null \/ Len(selectedModes) = 0 \/ isLoading

\* handlePlanRoute that also drops the current selection when it dispatches.
handlePlanRouteResetsSelection ==
    IF startLocation = null \/ endLocation = null \/ Len(selectedModes) = 0
    THEN /\ error' = msgValidation
         /\ UNCHANGED <<routeData, selectedRoute, isLoading, plans, failed>>
    ELSE /\ isLoading' = TRUE
         /\ error' = nullMessage
         /\ selectedRoute' = null
         /\ plans' = Append(plans, [start |-> Coords(startLocation),
                                    end   |-> Coords(endLocation),
                                    modes |-> Join(selectedModes)])
         /\ failed' = null
         /\ UNCHANGED routeData

\* handlePlanRoute whose validation forgets the modes.
handlePlanRouteNoModeCheck ==
    IF startLocation = null \/ endLocation = null
    THEN /\ error' = msgValidation
         /\ UNCHANGED <<routeData, selectedRoute, isLoading, plans, failed>>
    ELSE /\ isLoading' = TRUE
         /\ error' = nullMessage
         /\ plans' = Append(plans, [start |-> Coords(startLocation),
                                    end   |-> Coords(endLocation),
                                    modes |-> Join(selectedModes)])
         /\ failed' = null
         /\ UNCHANGED <<routeData, selectedRoute>>

\* handlePlanRoute up to its await.
handlePlanRoute ==
    IF startLocation = null \/ endLocation = null \/ Len(selectedModes) = 0
    THEN /\ error' = msgValidation
         /\ UNCHANGED <<routeData, selectedRoute, isLoading, plans, failed>>
    ELSE /\ isLoading' = TRUE
         /\ error' = nullMessage
         /\ plans' = Append(plans, [start |-> Coords(startLocation),
                                    end   |-> Coords(endLocation),
                                    modes |-> Join(selectedModes)])
         /\ failed' = null
         /\ UNCHANGED <<routeData, selectedRoute>>

\* ClickPlan with a button that stays enabled while a plan is loading.
ClickPlanWhileLoading ==
    /\ startLocation # null /\ endLocation # null /\ Len(selectedModes) # 0
    /\ Len(plans) < MaxPlans
    /\ handlePlanRoute
    /\ UNCHANGED <<fieldVars, locVars, selectedModes, healthVars>>

\* The plan button, while it is enabled.
ClickPlan ==
    /\ ~PlanDisabled
    /\ handlePlanRoute
    /\ UNCHANGED <<fieldVars, locVars, selectedModes, healthVars>>

\* handleRetry with a retry button that is rendered whatever error holds.
handleRetryAlwaysRendered ==
    /\ ~isLoading
    /\ handlePlanRoute
    /\ UNCHANGED <<fieldVars, locVars, selectedModes, healthVars>>

\* handleRetry: the retry button of the error message, rendered while error
\* is set.  setError(null) is overwritten by handlePlanRoute in either branch.
handleRetry ==
    /\ error # nullMessage
    /\ handlePlanRoute
    /\ UNCHANGED <<fieldVars, locVars, selectedModes, healthVars>>

\* handlePlanRoute called whatever the button shows.
CallPlanRoute ==
    /\ Len(plans) < MaxPlans
    /\ handlePlanRoute
    /\ UNCHANGED <<fieldVars, locVars, selectedModes, healthVars>>

\* PlanSuccess that stores the response and leaves selectedRoute alone.
PlanSuccessSelectionUntouched(i, response) ==
    /\ i \in 1..Len(plans)
    /\ routeData' = response
    /\ isLoading' = FALSE
    /\ plans' = RemoveAt(plans, i)
    /\ UNCHANGED <<fieldVars, locVars, selectedModes, selectedRoute, error, failed,
                   healthVars>>

\* PlanSuccess that keeps a selection the user has made.
PlanSuccessKeepsSelection(i, response) ==
    /\ i \in 1..Len(plans)
    /\ routeData' = response
    /\ selectedRoute' = IF selectedRoute = null THEN response.recommended_route
                        ELSE selectedRoute
    /\ isLoading' = FALSE
    /\ plans' = RemoveAt(plans, i)
    /\ UNCHANGED <<fieldVars, locVars, selectedModes, error, failed, healthVars>>

\* The i-th planning call in flight resolves with response.
PlanSuccess(i, response) ==
    /\ i \in 1..Len(plans)
    /\ routeData' = response
    /\ selectedRoute' = response.recommended_route
    /\ isLoading' = FALSE
    /\ plans' = RemoveAt(plans, i)
    /\ UNCHANGED <<fieldVars, locVars, selectedModes, error, failed, healthVars>>

\* PlanFailure that clears the result and leaves the selection.
PlanFailureKeepsSelection(i, err) ==
    /\ i \in 1..Len(plans)
    /\ error' = IF err.detail # "" THEN err.detail ELSE msgFallback
    /\ routeData' = null
    /\ isLoading' = FALSE
    /\ plans' = RemoveAt(plans, i)
    /\ failed' = plans[i]
    /\ UNCHANGED <<fieldVars, locVars, selectedModes, selectedRoute, healthVars>>

\* The i-th planning call in flight rejects with err.
PlanFailure(i, err) ==
    /\ i \in 1..Len(plans)
    /\ error' = IF err.detail # "" THEN err.detail ELSE msgFallback
    /\ routeData' = null
    /\ selectedRoute' = null
    /\ isLoading' = FALSE
    /\ plans' = RemoveAt(plans, i)
    /\ failed' = plans[i]
    /\ UNCHANGED <<fieldVars, locVars, selectedModes, healthVars>>

\* The routes the map and the comparison panel offer.
Routes == IF routeData = null THEN <<>> ELSE routeData.route_options

\* handleRouteSelect: a button of the map's route selection overlay.
handleRouteSelect(k) ==
    /\ startLocation # null \/ endLocation # null \/ routeData # null
    /\ Len(Routes) > 0 /\ k \in 1..Len(Routes)
    /\ selectedRoute' = Routes[k]
    /\ UNCHANGED <<fieldVars, locVars, selectedModes, routeData, isLoading,
                   error, plans, failed, healthVars>>

\* A card of the route comparison panel: setSelectedRoute(route).
ClickComparison(k) ==
    /\ routeData # null /\ Len(Routes) > 0 /\ k \in 1..Len(Routes)
    /\ selectedRoute' = Routes[k]
    /\ UNCHANGED <<fieldVars, locVars, selectedModes, routeData, isLoading,
                   error, plans, failed, healthVars>>

(***************************************************************************)
(* HealthCheck                                                             *)
(***************************************************************************)
\* checkApiHealth after its await: the request succeeded.
HealthOk ==
    /\ healthPending
    /\ status' = "healthy"
    /\ healthPending' = FALSE
    /\ UNCHANGED <<fieldVars, locVars, appVars>>

\* HealthFail that polls again after a failure.
HealthFailPollsAgain ==
    /\ healthPending
    /\ status' = "unhealthy"
    /\ healthPending' = TRUE
    /\ UNCHANGED <<fieldVars, locVars, appVars>>

\* checkApiHealth's catch: the request failed.
HealthFail ==
    /\ healthPending
    /\ status' = "unhealthy"
    /\ healthPending' = FALSE
    /\ UNCHANGED <<fieldVars, locVars, appVars>>

(***************************************************************************)
(* Specifications                                                          *)
(***************************************************************************)
Init ==
    /\ query = [f \in Fields |-> <<>>]
    /\ results = [f \in Fields |-> <<>>]
    /\ isSearching = [f \in Fields |-> FALSE]
    /\ showResults = [f \in Fields |-> FALSE]
    /\ searchTimeoutRef = [f \in Fields |-> NoTimer]
    /\ timers = [f \in Fields |-> {}]
    /\ searches = [f \in Fields |-> <<>>]
    /\ startLocation = null
    /\ endLocation = null
    /\ selectedModes = <<"cycling-regular">>
    /\ routeData = null
    /\ selectedRoute = null
    /\ isLoading = FALSE
    /\ error = nullMessage
    /\ plans = <<>>
    /\ failed = null
    /\ status = "checking"
    /\ healthPending = TRUE

\* One LocationInput on its own (the start field), over all the texts.
NextField ==
    \/ \E t \in Texts : Type("start", t)
    \/ \E q \in timers["start"] : TimerFire("start", q, MaxInFlight)
    \/ \E i \in 1..Len(searches["start"]), o \in SearchOutcomes :
          SearchComplete("start", i, o)
    \/ \E k \in 1..Len(results["start"]) : handleSelectResult("start", k)
    \/ handleClear("start")
    \/ handleClickOutside("start")

SpecField == Init /\ [][NextField]_vars

\* What the user does to the start field.
UserField ==
    \/ \E t \in Texts : Type("start", t)
    \/ \E k \in 1..Len(results["start"]) : handleSelectResult("start", k)
    \/ handleClear("start")
    \/ handleClickOutside("start")

\* The start field on its own until it holds a Location, and left alone by
\* the user from then on; every pending timer fires and every geocoding
\* request issued completes.
NextFieldLeftAlone ==
    \/ startLocation = null /\ UserField
    \/ \E q \in timers["start"] : TimerFire("start", q, MaxInFlight)
    \/ \E i \in 1..Len(searches["start"]), o \in SearchOutcomes :
          SearchComplete("start", i, o)

SpecFieldLeftAlone ==
    /\ Init
    /\ [][NextFieldLeftAlone]_vars
    /\ WF_vars(\E q \in timers["start"] : TimerFire("start", q, MaxInFlight))
    /\ WF_vars(\E i \in 1..Len(searches["start"]), o \in SearchOutcomes :
                  SearchComplete("start", i, o))

\* The whole application as the rendered UI drives it.
Next ==
    \/ \E t \in AppTexts : Type("start", t)
    \/ \E t \in AppEndTexts : Type("end", t)
    \/ \E f \in Fields : \E q \in timers[f] : TimerFire(f, q, AppMaxInFlight)
    \/ \E f \in Fields : \E i \in 1..Len(searches[f]), o \in AppSearchOutcomes :
          SearchComplete(f, i, o)
    \/ \E f \in Fields : \E k \in 1..Len(results[f]) : handleSelectResult(f, k)
    \/ \E f \in Fields : handleClear(f)
    \/ \E f \in Fields : handleClickOutside(f)
    \/ \E m \in AppModes : handleModeToggle(m)
    \/ ClickPlan
    \/ handleRetry
    \/ \E i \in 1..Len(plans), r \in PlanResponses : PlanSuccess(i, r)
    \/ \E i \in 1..Len(plans), e \in PlanErrors : PlanFailure(i, e)
    \/ \E k \in 1..Len(Routes) : handleRouteSelect(k)
    \/ \E k \in 1..Len(Routes) : ClickComparison(k)
    \/ HealthOk
    \/ HealthFail

Spec == Init /\ [][Next]_vars

\* The planning session with handlePlanRoute also called directly, whatever
\* the plan button shows; the Locations come from coordinate pairs.
NextHandlers ==
    \/ \E f \in Fields, t \in AppEndTexts : Type(f, t)
    \/ \E f \in Fields : \E q \in timers[f] : TimerFire(f, q, AppMaxInFlight)
    \/ \E f \in Fields : handleClear(f)
    \/ \E m \in AppModes : handleModeToggle(m)
    \/ ClickPlan
    \/ CallPlanRoute
    \/ handleRetry
    \/ \E i \in 1..Len(plans), r \in PlanResponses : PlanSuccess(i, r)
    \/ \E i \in 1..Len(plans), e \in PlanErrors : PlanFailure(i, e)
    \/ \E k \in 1..Len(Routes) : handleRouteSelect(k)
    \/ \E k \in 1..Len(Routes) : ClickComparison(k)

SpecHandlers == Init /\ [][NextHandlers]_vars

\* The planning session over all the transport modes, as the rendered UI
\* drives it; the Locations come from coordinate pairs.
NextModes ==
    \/ \E f \in Fields, t \in AppEndTexts : Type(f, t)
    \/ \E f \in Fields : \E q \in timers[f] : TimerFire(f, q, AppMaxInFlight)
    \/ \E f \in Fields : handleClear(f)
    \/ \E m \in Range(transportModes) : handleModeToggle(m)
    \/ ClickPlan
    \/ handleRetry
    \/ \E i \in 1..Len(plans), r \in PlanResponses : PlanSuccess(i, r)
    \/ \E i \in 1..Len(plans), e \in PlanErrors : PlanFailure(i, e)

SpecModes == Init /\ [][NextModes]_vars
(***************************************************************************)
(* Claims                                                                  *)
(***************************************************************************)
localVars == <<query, results, isSearching, showResults, searchTimeoutRef, timers>>

\* C1: of two geocoding requests in flight for one field, the response to
\* the earlier one is discarded when its originating query is no longer the
\* field's current query: it changes neither results nor showResults.
C1_StaleSearchDiscarded ==
    [][\A f \in Fields : \A i \in 1..Len(searches[f]) : \A o \in SearchOutcomes :
          (/\ i < Len(searches[f])
           /\ searches[f][i] # query[f]
           /\ SearchComplete(f, i, o))
             => UNCHANGED <<results, showResults>>]_vars

C4_Valid(q) ==
    /\ coordMatch(q) # NoMatch
    /\ InRange(parseFloat(coordMatch(q)[1]), 0 - 90, 90)
    /\ InRange(parseFloat(coordMatch(q)[2]), 0 - 180, 180)

\* C4: when the timer fires for a coordinate query in range, the parsed
\* Location is emitted, the results are emptied, the dropdown is closed and
\* no geocoding request is issued; a query that matches the pattern with a
\* component out of range emits nothing and goes to the geocoding request.
C4_CoordinateShortCircuit ==
    [][\A f \in Fields : \A q \in timers[f] :
          TimerFire(f, q, MaxInFlight) =>
             IF C4_Valid(q)
             THEN /\ Value(f)'.lat = parseFloat(coordMatch(q)[1])
                  /\ Value(f)'.lng = parseFloat(coordMatch(q)[2])
                  /\ results'[f] = <<>>
                  /\ ~showResults'[f]
                  /\ searches' = searches
             ELSE /\ searches'[f] = Append(searches[f], q)
                  /\ UNCHANGED locVars]_vars

\* C4 witness: 1.0,2 was resolved to lat 1, lng 2 without a request, and
\* 95,5 (latitude out of range) went to the geocoding provider.
C4_Witness ==
    /\ startLocation # null
    /\ startLocation.lat = [m |-> 1, e |-> 0]
    /\ startLocation.lng = [m |-> 2, e |-> 0]
    /\ searches["start"] = <<tCoordHi>>

\* C5: whenever the query has at most 2 characters, no timer is pending for
\* the field, its results are empty and its dropdown is not visible.
C5_ShortQueryCleared ==
    \A f \in Fields :
       Len(query[f]) <= 2 =>
          timers[f] = {} /\ results[f] = <<>> /\ ~showResults[f]

\* C6: every successful planning response sets selectedRoute to its
\* recommended route (null when there is none), whatever was selected before.
C6_SelectionReset ==
    [][\A i \in 1..Len(plans) : \A r \in PlanResponses :
          PlanSuccess(i, r) =>
             /\ routeData' = r
             /\ selectedRoute' = r.recommended_route
             /\ (r.route_options = <<>> => selectedRoute' = null)]_vars

\* C6 witness: response B has arrived and its recommended route is the
\* selection.
C6_Witness ==
    /\ routeData = respB
    /\ selectedRoute = optCycleB
    /\ plans = <<>>
    /\ ~isLoading

\* C7: a route selection sets selectedRoute to the chosen option, and
\* selectedRoute changes in no other step than a selection or the
\* resolution of a planning request.
C7_SelectionPersists ==
    [][/\ \A k \in 1..Len(Routes) :
             (handleRouteSelect(k) \/ ClickComparison(k)) => selectedRoute' = Routes[k]
       /\ selectedRoute' # selectedRoute =>
             \/ Len(plans') < Len(plans)
             \/ /\ selectedRoute' \in Range(Routes)
                /\ UNCHANGED <<fieldVars, locVars, selectedModes, routeData,
                               isLoading, error, plans, healthVars>>]_vars

\* C7 witness: the manually selected car route of response A is still the
\* selection after the form was edited and a new plan was started.
C7_Witness ==
    /\ routeData = respA
    /\ selectedRoute = optCarA
    /\ Len(plans) = 1
    /\ endLocation # null /\ query["end"] = tCoord
    /\ query["start"] = tAbc

\* C8: a failed planning request leaves routeData null, selectedRoute null,
\* isLoading false and the error message equal to the body's detail when
\* there is one and to the fallback message otherwise.
C8_PlanFailureOutcome ==
    [][\A i \in 1..Len(plans) : \A e \in PlanErrors :
          PlanFailure(i, e) =>
             /\ routeData' = null
             /\ selectedRoute' = null
             /\ ~isLoading'
             /\ error' = IF e.kind = "http" /\ e.detail # ""
                         THEN e.detail
                         ELSE "Failed to plan route. Please try again."]_vars

\* C8 witness: the backend's detail is the error shown, with nothing planned.
C8_Witness ==
    /\ error = "no route found"
    /\ routeData = null
    /\ selectedRoute = null
    /\ ~isLoading

\* C9: the plan action with start null, end null or no mode selected issues
\* no request, shows the validation message and leaves routeData,
\* selectedRoute and isLoading as they were.
C9_ValidationBeforeDispatch ==
    [][(/\ startLocation = null \/ endLocation = null \/ selectedModes = <<>>
        /\ ClickPlan \/ CallPlanRoute \/ handleRetry)
          => /\ plans' = plans
             /\ error' = "Please fill in all required fields"
             /\ UNCHANGED <<routeData, selectedRoute, isLoading>>]_vars

\* C9 witness: the validation message is shown over an earlier result, with
\* no request in flight.
C9_Witness ==
    /\ error = msgValidation
    /\ routeData # null
    /\ selectedRoute # null
    /\ plans = <<>>

\* C10: a debounce timer is started by a keystroke only: rewriting the
\* display text from the Location (after a pick or a coordinate resolve)
\* starts none, so nothing is searched or resolved again.
C10_OnlyKeystrokesStartTimers ==
    [][\A f \in Fields :
          timers'[f] \ timers[f] # {} => \E t \in Texts : Type(f, t)]_vars

\* C11: when the user edits the text of a field down to the empty string,
\* the Location of that field becomes null.
C11_EmptiedFieldDestroysLocation ==
    [][\A f \in Fields : Type(f, tEmpty) => Value(f)' = null]_vars

\* C12: pressing clear leaves the field with an empty query, null as its
\* Location, no results, the dropdown closed and no debounce timer pending.
C12_ExplicitClear ==
    [][\A f \in Fields :
          handleClear(f) =>
             /\ query'[f] = <<>>
             /\ Value(f)' = null
             /\ results'[f] = <<>>
             /\ ~showResults'[f]
             /\ timers'[f] = {}]_vars

\* C12 witness: the field was cleared while the timer of the picked result
\* Oslo was pending; the Location is null again and the timer is gone.
C12_Witness ==
    /\ searchTimeoutRef["start"] = tOslo
    /\ searches["start"] = <<>>
    /\ ~isSearching["start"]
    /\ query["start"] = <<>>
    /\ startLocation = null
    /\ timers["start"] = {}

\* C13: a geocoding request that ends in an error yields the empty list;
\* the field then has no results, a closed dropdown and isSearching false,
\* and error, routeData and selectedRoute are as they were.
C13_GeocodingFailureSilent ==
    [][\A f \in Fields : \A i \in 1..Len(searches[f]) :
          \A o \in {x \in SearchOutcomes : ~x.ok} :
             /\ searchLocation(o) = <<>>
             /\ SearchComplete(f, i, o) =>
                   /\ results'[f] = <<>>
                   /\ ~showResults'[f]
                   /\ ~isSearching'[f]
                   /\ UNCHANGED <<error, routeData, selectedRoute>>]_vars

\* C13 witness: the search for abc has failed under a planned route; the
\* field shows no suggestions and the route is still displayed.
C13_Witness ==
    /\ query["start"] = tAbc
    /\ searchTimeoutRef["start"] = tAbc
    /\ timers["start"] = {}
    /\ searches["start"] = <<>>
    /\ results["start"] = <<>>
    /\ ~isSearching["start"]
    /\ routeData = respA
    /\ selectedRoute = optCarA
    /\ error = nullMessage

\* C14: after a planning request has failed, the retry action clears the
\* error and issues a planning request with the start, end and modes of the
\* failed request, whatever the form holds by then.
C14_RetrySameInputs ==
    [][(failed # null /\ handleRetry) =>
          /\ error' = nullMessage
          /\ plans' = Append(plans, failed)]_vars

\* C15: selectedModes is always a duplicate-free list of transport modes;
\* a toggle flips the membership of the toggled mode and of no other mode;
\* and while no mode is selected no step dispatches a planning request.
C15_ModeSelection ==
    [][/\ Range(selectedModes') \subseteq
             {"driving-car", "cycling-regular", "foot-walking"}
       /\ Cardinality(Range(selectedModes')) = Len(selectedModes')
       /\ \A m \in Range(transportModes) :
             handleModeToggle(m) =>
                \A n \in Range(transportModes) :
                   (n \in Range(selectedModes') <=> n \in Range(selectedModes))
                      <=> n # m
       /\ selectedModes = <<>> => Len(plans') <= Len(plans)]_vars

\* C15 witness: cycling was toggled off and walking and driving on, and a
\* request with these two modes is in flight.
C15_Witness ==
    /\ selectedModes = <<"foot-walking", "driving-car">>
    /\ Len(plans) = 1
    /\ plans[1].modes = <<"foot-walking", ",", "driving-car">>

\* C16: the indicator is 'checking' exactly while the one health request
\* of the mount is outstanding; it becomes 'healthy' when the request
\* succeeds and 'unhealthy' when it fails; after that the indicator never
\* changes and no health request is issued again.
C16_HealthIndicator ==
    [][/\ healthPending <=> status = "checking"
       /\ healthPending' <=> status' = "checking"
       /\ HealthOk => status' = "healthy"
       /\ HealthFail => status' = "unhealthy"
       /\ status # "checking" => status' = status /\ ~healthPending'
       /\ healthPending' => healthPending]_vars

\* C16 witness: the health request has failed and the indicator stays
\* 'unhealthy' while the application is used (a plan is in flight).
C16_Witness ==
    /\ status = "unhealthy"
    /\ ~healthPending
    /\ Len(plans) = 1

\* C17: whenever selectedRoute is non-null, routeData is non-null and
\* selectedRoute is one of the route options of the current routeData.
C17_SelectionValid ==
    selectedRoute # null =>
       /\ routeData # null
       /\ selectedRoute \in Range(routeData.route_options)

\* C17 witness: the car route of response A was selected by hand and is
\* still the selection after the start field was cleared.
C17_Witness ==
    /\ routeData = respA
    /\ selectedRoute = optCarA
    /\ startLocation = null
    /\ plans = <<>>
    /\ error = nullMessage

\* C18: in every state of a field, a visible dropdown has a non-empty
\* result list.
C18_DropdownHasResults ==
    \A f \in Fields : showResults[f] => results[f] # <<>>

\* C18 witness: the dropdown is open on the two results of a request that
\* completed after the text had been shortened to two characters.
C18_Witness ==
    /\ showResults["start"]
    /\ results["start"] = <<resOslo, resRome>>
    /\ query["start"] = tAb
    /\ searches["start"] = <<>>

\* C19: in every state of a field, isSearching is true only if a geocoding
\* request whose originating query is the field's current query is
\* outstanding.
C19_SearchingCurrentQuery ==
    \A f \in Fields :
       isSearching[f] => \E i \in 1..Len(searches[f]) : searches[f][i] = query[f]

\* C20: through the rendered UI at most one planning request is in flight
\* at any time, and isLoading is true exactly while one is in flight.
C20_SinglePlanInFlight ==
    /\ Len(plans) <= 1
    /\ isLoading <=> Len(plans) = 1

\* C20 witness: a second plan is loading over the displayed result of the
\* first, and it is the only request in flight.
C20_Witness ==
    /\ isLoading
    /\ Len(plans) = 1
    /\ routeData = respB
    /\ selectedRoute = optCycleB

\* C21: through the rendered UI, whenever error is non-null, routeData is
\* null and selectedRoute is null.
C21_ErrorExcludesResult ==
    error # nullMessage => routeData = null /\ selectedRoute = null

\* C21 witness: a retry over an emptied form shows the validation message
\* after the failure that cleared the result; nothing is displayed with it.
C21_Witness ==
    /\ error = msgValidation
    /\ failed # null
    /\ routeData = null
    /\ selectedRoute = null
    /\ plans = <<>>

\* The field is at rest: no timer is pending and no request is outstanding.
C22_AtRest == timers["start"] = {} /\ searches["start"] = <<>>

\* C22: once the field holds a Location (a coordinate query resolved or a
\* result was picked) and the user leaves it alone, the field comes to rest
\* for good after finitely many timer firings and requests: the loop from
\* an emitted Location back to a debounce timer does not go on.
C22_FieldQuiescence == (startLocation # null) ~> []C22_AtRest

\* C22 witness: the field is at rest after the pick of Oslo, whose rewritten
\* text started a timer and a request that has completed.
C22_Witness ==
    /\ C22_AtRest
    /\ query["start"] = tOslo
    /\ searchTimeoutRef["start"] = tOslo
    /\ startLocation # null
    /\ startLocation.address = tOslo
    /\ ~isSearching["start"]
====
